---- MODULE Spec2Model ----
(***************************************************************************)
(* Model of mc_motd_broadcaster_config.py: the MinecraftMOTDBroadcaster   *)
(* class (one broadcast thread per instance, guarded by a stop event),    *)
(* load_config and main.                                                   *)
(*                                                                         *)
(* Strings are sequences of one-character strings, encoded datagrams are   *)
(* sequences of byte values.  Seconds are integers (3.0 is 3).             *)
(***************************************************************************)
EXTENDS Integers, Sequences, FiniteSets, TLC

VARIABLES
    file,           \* the configuration file at config_path
    requested,      \* the settings the user wants (what a present file holds)
    force,          \* args.force
    config,         \* the dictionary load_config returned
    loaded,         \* load_config has returned
    broadcasters,   \* main's list of MinecraftMOTDBroadcaster instances
    class_interval, \* the class attribute BROADCAST_INTERVAL
    wire,           \* datagrams handed to the network by sendto
    history,        \* per instance: what the callers and the thread did so far
    callerPc,       \* position of the thread calling start()/stop()
    callerArg,      \* the instance (or loop index) the caller works on
    exception,      \* exception that left the caller's current frame
    interrupted,    \* the KeyboardInterrupt has been delivered to main
    now             \* clock, in seconds

vars == <<file, requested, force, config, loaded, broadcasters, class_interval,
          wire, history, callerPc, callerArg, exception, interrupted, now>>

----------------------------------------------------------------------------
(* Bounds of the model *)

MaxCount == 2       \* largest motd_count in a configuration
MaxSends == 3       \* datagrams counted per instance and start
MaxTime == 6        \* last second of the clock

----------------------------------------------------------------------------
(* Strings and bytes *)

Printable ==
    <<" ", "!", "\"", "#", "$", "%", "&", "'", "(", ")", "*", "+", ",", "-",
      ".", "/", "0", "1", "2", "3", "4", "5", "6", "7", "8", "9", ":", ";",
      "<", "=", ">", "?", "@", "A", "B", "C", "D", "E", "F", "G", "H", "I",
      "J", "K", "L", "M", "N", "O", "P", "Q", "R", "S", "T", "U", "V", "W",
      "X", "Y", "Z", "[", "\\", "]", "^", "_">>

Lowercase ==
    <<"a", "b", "c", "d", "e", "f", "g", "h", "i", "j", "k", "l", "m", "n",
      "o", "p", "q", "r", "s", "t", "u", "v", "w", "x", "y", "z", "{", "|",
      "}", "~">>

\* ord() of an ASCII character (Printable is 32..95, Lowercase 97..126)
Ord(c) ==
    IF c = "\t" THEN 9
    ELSE IF c = "\n" THEN 10
    ELSE IF \E i \in 1..Len(Printable) : Printable[i] = c
         THEN 31 + (CHOOSE i \in 1..Len(Printable) : Printable[i] = c)
         ELSE 96 + (CHOOSE i \in 1..Len(Lowercase) : Lowercase[i] = c)

\* str.encode(): UTF-8, one byte per ASCII character
encode(s) == [i \in 1..Len(s) |-> Ord(s[i])]

\* the characters str.strip() removes
Whitespace == {" ", "\t", "\n"}

RECURSIVE lstrip(_)
lstrip(s) ==
    IF s # <<>> /\ Head(s) \in Whitespace THEN lstrip(Tail(s)) ELSE s

RECURSIVE rstrip(_)
rstrip(s) ==
    IF s # <<>> /\ s[Len(s)] \in Whitespace
    THEN rstrip(SubSeq(s, 1, Len(s) - 1))
    ELSE s

\* str.strip()
strip(s) == rstrip(lstrip(s))

Digits == <<"0", "1", "2", "3", "4", "5", "6", "7", "8", "9">>

RECURSIVE str_nat(_)
str_nat(n) ==
    IF n < 10 THEN <<Digits[n + 1]>>
    ELSE str_nat(n \div 10) \o <<Digits[(n % 10) + 1]>>

\* str() of an integer, as an f-string formats it
str(n) == IF n < 0 THEN <<"-">> \o str_nat(0 - n) ELSE str_nat(n)

----------------------------------------------------------------------------
(* load_config *)

\* "A Minecraft Server"
DefaultMotd ==
    <<"A", " ", "M", "i", "n", "e", "c", "r", "a", "f", "t", " ",
      "S", "e", "r", "v", "e", "r">>

default_config ==
    [motd_count |-> 1, motd |-> DefaultMotd, base_port |-> 25565,
     interval |-> 3, auto_motd |-> FALSE, silent |-> FALSE]

\* dict.update on a copy
update(d, u) ==
    [k \in (DOMAIN d) \cup (DOMAIN u) |-> IF k \in DOMAIN u THEN u[k] ELSE d[k]]

\* d with d[key] = value
setitem(d, key, value) ==
    [k \in (DOMAIN d) \cup {key} |-> IF k = key THEN value ELSE d[k]]

\* the entry built at index i (0-based) of the generation loop; the name is
\* the prefix of the source followed by the number i + 1
generated_server_same_port(result, i) ==
    [name |-> <<"#">> \o str(i + 1), motd |-> result["motd"],
     port |-> result["base_port"], interval |-> result["interval"],
     auto_motd |-> result["auto_motd"]]

generated_server(result, i) ==
    [name |-> <<"#">> \o str(i + 1), motd |-> result["motd"],
     port |-> result["base_port"] + i, interval |-> result["interval"],
     auto_motd |-> result["auto_motd"]]

\* for i in range(result["motd_count"]): servers.append(...)
generated_servers(result) ==
    LET n == IF result["motd_count"] > 0 THEN result["motd_count"] ELSE 0
    IN  [j \in 1..n |-> generated_server(result, j - 1)]

\* the list both fallback branches build
default_servers ==
    <<[name |-> <<"#">> \o str(1), motd |-> default_config["motd"],
       port |-> default_config["base_port"],
       interval |-> default_config["interval"],
       auto_motd |-> default_config["auto_motd"]]>>

\* the value load_config returns for the file f
load_config(f) ==
    IF f.exists
    THEN IF f.parses
         THEN LET result == update(default_config, f.content)
              IN  IF "motd_count" \in DOMAIN result
                  THEN setitem(result, "servers", generated_servers(result))
                  ELSE result
         ELSE setitem(default_config, "servers", default_servers)
    ELSE setitem(default_config, "servers", default_servers)

\* a file holding json.dump(default_config)
DefaultFile == [exists |-> TRUE, parses |-> TRUE, content |-> default_config]

----------------------------------------------------------------------------
(* class MinecraftMOTDBroadcaster *)

MULTICAST_ADDRESS == "224.0.2.60"
BROADCAST_PORT == 4445
BROADCAST_INTERVAL == 3

\* positions of a threading.Thread: "new" is constructed and never started,
\* "check" is at the while condition, "send" before _broadcast_message(),
\* "sleep" inside time.sleep(), "exited" after the target returned or raised
ThreadStates == {"new", "check", "send", "sleep", "exited"}

\* Thread.is_alive()
is_alive(t) == t \in {"check", "send", "sleep"}

\* the object __init__ builds once socket.socket() has returned;
\* own_interval is the instance attribute BROADCAST_INTERVAL, <<>> when the
\* instance has none and the class attribute is read
init(motd, server_port) ==
    [motd |-> strip(motd), server_port |-> server_port, stop_event |-> TRUE,
     thread |-> "new", own_interval |-> <<>>, wake |-> 0]

\* self.BROADCAST_INTERVAL
interval_of(a) ==
    IF broadcasters[a].own_interval = <<>>
    THEN class_interval
    ELSE broadcasters[a].own_interval[1]

format_message_spaced(b) ==
    <<"[", "M", "O", "T", "D", "]">> \o b.motd
        \o <<"[", "/", "M", "O", "T", "D", "]", " ", "[", "A", "D", "]">>
        \o str(b.server_port) \o <<"[", "/", "A", "D", "]">>

\* _format_message
format_message(b) ==
    <<"[", "M", "O", "T", "D", "]">> \o b.motd
        \o <<"[", "/", "M", "O", "T", "D", "]", "[", "A", "D", "]">>
        \o str(b.server_port) \o <<"[", "/", "A", "D", "]">>

\* the datagram _broadcast_message hands to sendto
datagram(a) ==
    [src |-> a, body |-> encode(format_message(broadcasters[a])),
     address |-> MULTICAST_ADDRESS, port |-> BROADCAST_PORT]

\* is_running
is_running(a) == is_alive(broadcasters[a].thread)

\* what the model records about instance a besides its fields:
\*   lifecycle   Stopped, Running (start() succeeded), Stopping (stop() was
\*               called and has not returned)
\*   sent        datagrams sent since the last successful start()
\*   start_time  the clock at the last successful start()
\*   last_send   outcome of the last sendto
\*   late_send   a datagram left after stop() had returned
\*   stop_done   stop() has returned since the last start()
\*   arg_motd, arg_port   the arguments __init__ was called with
NewHistory(motd, server_port) ==
    [lifecycle |-> "Stopped", sent |-> 0, start_time |-> 0,
     last_send |-> "none", late_send |-> FALSE, stop_done |-> FALSE,
     arg_motd |-> motd, arg_port |-> server_port]

\* while not self._stop_event.is_set()
loop_check(a) ==
    /\ broadcasters[a].thread = "check"
    /\ IF broadcasters[a].stop_event
       THEN broadcasters' = [broadcasters EXCEPT ![a].thread = "exited"]
       ELSE /\ history[a].sent < MaxSends
            /\ broadcasters' = [broadcasters EXCEPT ![a].thread = "send"]
    /\ UNCHANGED <<file, requested, force, config, loaded, class_interval,
                   wire, history, callerPc, callerArg, exception,
                   interrupted, now>>

\* self._broadcast_message() returns and time.sleep(interval) begins
send_ok(a) ==
    /\ broadcasters[a].thread = "send"
    /\ wire' = wire \cup {datagram(a)}
    /\ broadcasters' = [broadcasters EXCEPT ![a].thread = "sleep",
                                            ![a].wake = now + interval_of(a)]
    /\ history' = [history EXCEPT
            ![a].sent = @ + 1,
            ![a].last_send = "ok",
            ![a].late_send = @ \/ history[a].lifecycle = "Stopped"]
    /\ UNCHANGED <<file, requested, force, config, loaded, class_interval,
                   callerPc, callerArg, exception, interrupted, now>>

\* sendto raises OSError: only KeyboardInterrupt is caught in _broadcast_loop,
\* so the exception ends the thread
send_error(a) ==
    /\ broadcasters[a].thread = "send"
    /\ broadcasters' = [broadcasters EXCEPT ![a].thread = "exited"]
    /\ history' = [history EXCEPT ![a].last_send = "error"]
    /\ UNCHANGED <<file, requested, force, config, loaded, class_interval,
                   wire, callerPc, callerArg, exception, interrupted, now>>

\* time.sleep() returns and the loop goes back to its condition
sleep_return(a) ==
    /\ broadcasters[a].thread = "sleep"
    /\ broadcasters' = [broadcasters EXCEPT ![a].thread = "check"]
    /\ UNCHANGED <<file, requested, force, config, loaded, class_interval,
                   wire, history, callerPc, callerArg, exception,
                   interrupted, now>>

\* start(): the effect on the instance and the exception it raises
start(a) ==
    IF ~is_running(a)
    THEN /\ broadcasters' = [broadcasters EXCEPT ![a].stop_event = FALSE,
                                                 ![a].thread = "check"]
         /\ history' = [history EXCEPT
                 ![a].lifecycle = "Running", ![a].sent = 0,
                 ![a].start_time = now, ![a].stop_done = FALSE]
         /\ exception' = "none"
    ELSE /\ exception' = "RuntimeError"
         /\ UNCHANGED <<broadcasters, history>>

\* stop(), first statement: self._stop_event.set()
stop_set(a) ==
    /\ broadcasters' = [broadcasters EXCEPT ![a].stop_event = TRUE]
    /\ history' = [history EXCEPT
            ![a].lifecycle = IF @ = "Running" THEN "Stopping" ELSE @]

stop_join_nowait(a) ==
    /\ history' = [history EXCEPT ![a].lifecycle = "Stopped",
                                  ![a].stop_done = TRUE]
    /\ UNCHANGED broadcasters

\* stop(), second statement: if self.is_running(): self.thread.join();
\* stop() returns once the thread is not alive
stop_join(a) ==
    /\ ~is_running(a)
    /\ history' = [history EXCEPT ![a].lifecycle = "Stopped",
                                  ![a].stop_done = TRUE]
    /\ UNCHANGED broadcasters

----------------------------------------------------------------------------
(* A client of the class: one thread that calls start(), stop() and sets  *)
(* the instance attribute BROADCAST_INTERVAL, on any instance, in any     *)
(* order.  callerPc is "idle" between calls and "stop_join" inside stop(). *)

Instances == DOMAIN broadcasters

\* interval values a configuration may carry besides the default
OtherIntervals == {2}

call_start(a) ==
    /\ callerPc = "idle"
    /\ start(a)
    /\ UNCHANGED <<file, requested, force, config, loaded, class_interval,
                   wire, callerPc, callerArg, interrupted, now>>

call_stop(a) ==
    /\ callerPc = "idle"
    /\ stop_set(a)
    /\ callerPc' = "stop_join"
    /\ callerArg' = a
    /\ UNCHANGED <<file, requested, force, config, loaded, class_interval,
                   wire, exception, interrupted, now>>

return_stop ==
    /\ callerPc = "stop_join"
    /\ stop_join(callerArg)
    /\ callerPc' = "idle"
    /\ UNCHANGED <<file, requested, force, config, loaded, class_interval,
                   wire, callerArg, exception, interrupted, now>>

set_interval_on_class(a, v) ==
    /\ class_interval' = v
    /\ UNCHANGED broadcasters

\* broadcaster.BROADCAST_INTERVAL = v: an assignment through the instance
\* creates an instance attribute and leaves the class attribute alone
set_interval(a, v) ==
    /\ broadcasters' = [broadcasters EXCEPT ![a].own_interval = <<v>>]
    /\ UNCHANGED class_interval

call_set_interval(a) ==
    /\ callerPc = "idle"
    /\ \E v \in OtherIntervals :
          /\ interval_of(a) # v
          /\ set_interval(a, v)
    /\ UNCHANGED <<file, requested, force, config, loaded, wire, history,
                   callerPc, callerArg, exception, interrupted, now>>

\* constructor arguments of the client's instances
Pairs ==
    << <<<<" ", "A", "\t">>, 25565>>,
       <<<<"\n", "b", " ", "c">>, 7>>,
       <<<<" ">>, 25565>> >>

NoFile == [exists |-> FALSE, parses |-> FALSE, content |-> <<>>]
NoConfig == [servers |-> <<>>]

\* two instances built from different motd/port pairs, both Stopped
Init ==
    /\ file = NoFile
    /\ requested = <<>>
    /\ force = FALSE
    /\ config = NoConfig
    /\ loaded = FALSE
    /\ \E i \in DOMAIN Pairs, j \in DOMAIN Pairs :
          /\ i < j
          /\ broadcasters = <<init(Pairs[i][1], Pairs[i][2]),
                               init(Pairs[j][1], Pairs[j][2])>>
    /\ class_interval = BROADCAST_INTERVAL
    /\ wire = {}
    /\ history = [a \in DOMAIN broadcasters |->
                      LET k == CHOOSE k \in DOMAIN Pairs :
                                   init(Pairs[k][1], Pairs[k][2]) = broadcasters[a]
                      IN  NewHistory(Pairs[k][1], Pairs[k][2])]
    /\ callerPc = "idle"
    /\ callerArg = 1
    /\ exception = "none"
    /\ interrupted = FALSE
    /\ now = 0

Next ==
    \/ \E a \in Instances : call_start(a)
    \/ \E a \in Instances : call_stop(a)
    \/ return_stop
    \/ \E a \in Instances : call_set_interval(a)
    \/ \E a \in Instances : loop_check(a)
    \/ \E a \in Instances : send_ok(a)
    \/ \E a \in Instances : send_error(a)
    \/ \E a \in Instances : sleep_return(a)

Spec == Init /\ [][Next]_vars

----------------------------------------------------------------------------
(* The same client with a clock.  The steps of the loop other than         *)
(* time.sleep() take no time, and time.sleep(I) returns I seconds after it *)
(* was called.                                                              *)

timed_sleep_return(a) ==
    /\ now >= broadcasters[a].wake
    /\ sleep_return(a)

\* a second passes: no thread has a step to take at the current time
Tick ==
    /\ now < MaxTime
    /\ \A a \in Instances :
          /\ broadcasters[a].thread \notin {"check", "send"}
          /\ broadcasters[a].thread = "sleep" => now < broadcasters[a].wake
    /\ now' = now + 1
    /\ UNCHANGED <<file, requested, force, config, loaded, broadcasters,
                   class_interval, wire, history, callerPc, callerArg,
                   exception, interrupted>>

\* one instance, with or without an interval of its own (main sets one when
\* the configured interval is not 3.0)
InitCadence ==
    /\ file = NoFile
    /\ requested = <<>>
    /\ force = FALSE
    /\ config = NoConfig
    /\ loaded = FALSE
    /\ \E i \in DOMAIN Pairs, own \in {<<>>} \cup {<<v>> : v \in OtherIntervals} :
          broadcasters =
              <<[init(Pairs[i][1], Pairs[i][2]) EXCEPT !.own_interval = own]>>
    /\ class_interval = BROADCAST_INTERVAL
    /\ wire = {}
    /\ history = [a \in DOMAIN broadcasters |->
                      LET k == CHOOSE k \in DOMAIN Pairs :
                                   init(Pairs[k][1], Pairs[k][2]).motd
                                       = broadcasters[a].motd
                      IN  NewHistory(Pairs[k][1], Pairs[k][2])]
    /\ callerPc = "idle"
    /\ callerArg = 1
    /\ exception = "none"
    /\ interrupted = FALSE
    /\ now = 0

NextCadence ==
    \/ \E a \in Instances : call_start(a)
    \/ \E a \in Instances : call_stop(a)
    \/ return_stop
    \/ \E a \in Instances : loop_check(a)
    \/ \E a \in Instances : send_ok(a)
    \/ \E a \in Instances : send_error(a)
    \/ \E a \in Instances : timed_sleep_return(a)
    \/ Tick

SpecCadence == InitCadence /\ [][NextCadence]_vars

----------------------------------------------------------------------------
(* main().  callerPc is the position of the main thread:                   *)
(*   main_check    before "if not os.path.exists(config_path)"             *)
(*   main_load     before "config = load_config(config_path)"              *)
(*   main_create   in the loop that builds the instances, at callerArg     *)
(*   main_start    in the try block, before broadcaster.start() of         *)
(*                 instance callerArg                                      *)
(*   main_run      in "while True: time.sleep(1)"                          *)
(*   main_finally  in the finally block, before stop() of callerArg        *)
(*   main_join     inside that stop(), after the event was set             *)
(*   main_done     main has returned                                       *)
(*   main_raised   an exception has left main                              *)

\* what open(config_path, 'w') and json.dump leave behind: the default
\* settings, or nothing when the write raised
written_files == {DefaultFile, NoFile}

\* lines 252-278: write the default file when there is none; without
\* --force, return after the prompt
main_check ==
    /\ callerPc = "main_check"
    /\ IF ~file.exists
       THEN \E f \in written_files :
               /\ file' = f
               /\ callerPc' = IF f.exists /\ ~force
                              THEN "main_done" ELSE "main_load"
       ELSE /\ callerPc' = "main_load"
            /\ UNCHANGED file
    /\ UNCHANGED <<requested, force, config, loaded, broadcasters,
                   class_interval, wire, history, callerArg, exception,
                   interrupted, now>>

\* where main goes once the list of instances is complete: the start loop,
\* or the wait when the list is empty
after_create(n) == IF n = 0 THEN "main_run" ELSE "main_start"

\* config = load_config(config_path); load_config writes the default file
\* when there is none
main_load ==
    /\ callerPc = "main_load"
    /\ config' = load_config(file)
    /\ loaded' = TRUE
    /\ IF ~file.exists
       THEN file' \in written_files
       ELSE UNCHANGED file
    /\ callerPc' = IF Len(config'["servers"]) = 0
                   THEN after_create(0) ELSE "main_create"
    /\ callerArg' = 1
    /\ UNCHANGED <<requested, force, broadcasters, class_interval, wire,
                   history, exception, interrupted, now>>

\* one iteration of "for server in config['servers']" in which
\* socket.socket() returns a socket
main_create ==
    /\ callerPc = "main_create"
    /\ LET server == config["servers"][callerArg]
           made == init(server["motd"], server["port"])
           broadcaster ==
               IF server["interval"] # 3
               THEN [made EXCEPT !.own_interval = <<server["interval"]>>]
               ELSE made
       IN  /\ broadcasters' = Append(broadcasters, broadcaster)
           /\ history' = Append(history,
                                 NewHistory(server["motd"], server["port"]))
    /\ IF callerArg = Len(config["servers"])
       THEN /\ callerPc' = after_create(Len(broadcasters'))
            /\ callerArg' = 1
       ELSE /\ callerArg' = callerArg + 1
            /\ UNCHANGED callerPc
    /\ UNCHANGED <<file, requested, force, config, loaded, class_interval,
                   wire, exception, interrupted, now>>

\* the same iteration when socket.socket() raises OSError: nothing in main
\* catches it around the constructor
main_create_error ==
    /\ callerPc = "main_create"
    /\ exception' = "OSError"
    /\ callerPc' = "main_raised"
    /\ UNCHANGED <<file, requested, force, config, loaded, broadcasters,
                   class_interval, wire, history, callerArg, interrupted,
                   now>>

\* broadcaster.start() in the try block; a RuntimeError is not caught by
\* "except KeyboardInterrupt" and runs the finally block on its way out
main_start ==
    /\ callerPc = "main_start"
    /\ start(callerArg)
    /\ IF exception' # "none"
       THEN /\ callerPc' = "main_finally"
            /\ callerArg' = 1
       ELSE IF callerArg = Len(broadcasters)
            THEN /\ callerPc' = "main_run"
                 /\ callerArg' = 1
            ELSE /\ callerArg' = callerArg + 1
                 /\ UNCHANGED callerPc
    /\ UNCHANGED <<file, requested, force, config, loaded, class_interval,
                   wire, interrupted, now>>

\* KeyboardInterrupt outside the try block: it leaves main
interrupt_before_try ==
    /\ ~interrupted
    /\ callerPc \in {"main_check", "main_load", "main_create"}
    /\ interrupted' = TRUE
    /\ exception' = "KeyboardInterrupt"
    /\ callerPc' = "main_raised"
    /\ UNCHANGED <<file, requested, force, config, loaded, broadcasters,
                   class_interval, wire, history, callerArg, now>>

\* where the finally block begins: at the first instance, or at its end
\* when there is none
finally_entry(n) == IF n = 0 THEN "main_done" ELSE "main_finally"

\* KeyboardInterrupt inside the try block: the except clause catches it and
\* the finally block follows
interrupt_in_try ==
    /\ ~interrupted
    /\ callerPc \in {"main_start", "main_run"}
    /\ interrupted' = TRUE
    /\ callerPc' = finally_entry(Len(broadcasters))
    /\ callerArg' = 1
    /\ UNCHANGED <<file, requested, force, config, loaded, broadcasters,
                   class_interval, wire, history, exception, now>>

\* broadcaster.stop() in the finally block, up to the join
main_finally ==
    /\ callerPc = "main_finally"
    /\ stop_set(callerArg)
    /\ callerPc' = "main_join"
    /\ UNCHANGED <<file, requested, force, config, loaded, class_interval,
                   wire, callerArg, exception, interrupted, now>>

main_join_first_only(a) ==
    /\ stop_join(a)
    /\ callerPc' = IF exception # "none" THEN "main_raised" ELSE "main_done"
    /\ UNCHANGED callerArg

\* stop() returns and the loop of the finally block moves on; after the
\* last instance main returns, or the pending exception leaves main
main_join_next(a) ==
    /\ stop_join(a)
    /\ IF a = Len(broadcasters)
       THEN /\ callerPc' = IF exception # "none"
                           THEN "main_raised" ELSE "main_done"
            /\ UNCHANGED callerArg
       ELSE /\ callerPc' = "main_finally"
            /\ callerArg' = a + 1

main_join ==
    /\ callerPc = "main_join"
    /\ main_join_next(callerArg)
    /\ UNCHANGED <<file, requested, force, config, loaded, class_interval,
                   wire, exception, interrupted, now>>

\* settings a configuration file of main may hold
MainRequests ==
    {<<>>}
        \cup {[motd_count |-> n] : n \in 0..MaxCount}
        \cup {[motd_count |-> n, interval |-> v, motd |-> <<" ", "H", "i", "\n">>]
                 : n \in 1..MaxCount, v \in OtherIntervals}

\* a file that holds the settings r
FileOf(r) == [exists |-> TRUE, parses |-> TRUE, content |-> r]

\* a file json.load cannot read
BadFile == [exists |-> TRUE, parses |-> FALSE, content |-> <<>>]

InitMain ==
    /\ requested \in MainRequests
    /\ file \in {NoFile, BadFile, FileOf(requested)}
    /\ file # FileOf(requested) => requested = <<>>
    /\ force \in BOOLEAN
    /\ config = NoConfig
    /\ loaded = FALSE
    /\ broadcasters = <<>>
    /\ class_interval = BROADCAST_INTERVAL
    /\ wire = {}
    /\ history = <<>>
    /\ callerPc = "main_check"
    /\ callerArg = 1
    /\ exception = "none"
    /\ interrupted = FALSE
    /\ now = 0

NextMain ==
    \/ main_check
    \/ main_load
    \/ main_create
    \/ main_create_error
    \/ main_start
    \/ interrupt_before_try
    \/ interrupt_in_try
    \/ main_finally
    \/ main_join
    \/ \E a \in Instances : loop_check(a)
    \/ \E a \in Instances : send_ok(a)
    \/ \E a \in Instances : send_error(a)
    \/ \E a \in Instances : sleep_return(a)

SpecMain == InitMain /\ [][NextMain]_vars

----------------------------------------------------------------------------
(* load_config called on its own, on every kind of configuration file     *)

BasePorts == {25565, 30000}

\* a "servers" list written by the user
ExplicitServers ==
    <<[name |-> <<"X">>, motd |-> <<"M">>, port |-> 40000, interval |-> 3,
       auto_motd |-> FALSE]>>

FullRequests ==
    [motd_count : (0 - 1)..MaxCount, base_port : BasePorts,
     interval : {3} \cup OtherIntervals, motd : {<<"M">>},
     servers : {ExplicitServers}]

\* the settings a user may ask for: any subset of the keys
Requests ==
    {[k \in K |-> r[k]] : r \in FullRequests,
                          K \in SUBSET {"motd_count", "base_port", "interval",
                                        "motd", "servers"}}

load_config_call ==
    /\ callerPc = "config_call"
    /\ config' = load_config(file)
    /\ loaded' = TRUE
    /\ IF ~file.exists
       THEN file' \in written_files
       ELSE UNCHANGED file
    /\ callerPc' = "config_done"
    /\ UNCHANGED <<requested, force, broadcasters, class_interval, wire,
                   history, callerArg, exception, interrupted, now>>

\* the file holds the requested settings, or is unreadable, or is missing
InitConfig ==
    /\ requested \in Requests
    /\ file \in {NoFile, BadFile, FileOf(requested)}
    /\ force = FALSE
    /\ config = NoConfig
    /\ loaded = FALSE
    /\ broadcasters = <<>>
    /\ class_interval = BROADCAST_INTERVAL
    /\ wire = {}
    /\ history = <<>>
    /\ callerPc = "config_call"
    /\ callerArg = 1
    /\ exception = "none"
    /\ interrupted = FALSE
    /\ now = 0

NextConfig == load_config_call

SpecConfig == InitConfig /\ [][NextConfig]_vars

----------------------------------------------------------------------------
(* Properties *)

\* C1: once stop() has returned (and until the next start()), the broadcast
\* thread of that instance has exited, is_running() is false and the
\* instance has sent no datagram since stop() returned, whatever the
\* interleaving of stop() with the steps of the loop.
C1_StopIsSynchronous ==
    \A a \in Instances :
        history[a].stop_done =>
            /\ history[a].lifecycle = "Stopped"
            /\ ~is_running(a)
            /\ broadcasters[a].thread \in {"new", "exited"}
            /\ ~history[a].late_send

\* stop() has returned on an instance that had sent datagrams, after its
\* flag was set while the thread was running
C1_Witness ==
    \E a \in Instances :
        /\ callerPc = "idle"
        /\ history[a].stop_done
        /\ history[a].sent >= 2
        /\ broadcasters[a].thread = "exited"

\* C2: after a successful start() and until stop() is called, is_running()
\* returns true (so that a second start() finds the instance running and
\* raises RuntimeError).
C2_RunningUntilStop ==
    \A a \in Instances :
        history[a].lifecycle = "Running" => is_running(a)

\* C3: a send that raises on a Running instance leaves the thread in the
\* interval wait, from which it sends again.
C3_SendFailureSwallowed ==
    [][\A a \in Instances :
          (broadcasters[a].thread = "send"
              /\ history'[a].last_send = "error"
              /\ history[a].lifecycle = "Running")
          => (broadcasters'[a].thread = "sleep" /\ is_alive(broadcasters'[a].thread))]_vars

\* bytes of "[MOTD]", "[/MOTD][AD]" and "[/AD]"
MotdOpenBytes == <<91, 77, 79, 84, 68, 93>>
MiddleBytes == <<91, 47, 77, 79, 84, 68, 93, 91, 65, 68, 93>>
AdCloseBytes == <<91, 47, 65, 68, 93>>

\* t is s without its leading and trailing whitespace
IsTrimOf(t, s) ==
    /\ \E i \in 1..(Len(s) + 1), j \in 0..Len(s) :
          /\ t = SubSeq(s, i, j)
          /\ \A k \in 1..Len(s) : (k < i \/ k > j) => s[k] \in Whitespace
    /\ t # <<>> => (t[1] \notin Whitespace /\ t[Len(t)] \notin Whitespace)

RECURSIVE DecimalValue(_)
\* the number a sequence of ASCII digits denotes
DecimalValue(d) ==
    IF d = <<>> THEN 0
    ELSE 10 * DecimalValue(SubSeq(d, 1, Len(d) - 1)) + (d[Len(d)] - 48)

\* d is the plain decimal notation of the natural number n, in ASCII
IsDecimalOf(d, n) ==
    /\ Len(d) >= 1
    /\ \A k \in 1..Len(d) : d[k] \in 48..57
    /\ Len(d) > 1 => d[1] # 48
    /\ DecimalValue(d) = n

\* body is "[MOTD]" + T + "[/MOTD][AD]" + P + "[/AD]" for the trimmed text T
\* of motd and the port P
IsAnnouncement(body, motd, port) ==
    \E t \in {SubSeq(motd, i, j) : i \in 1..(Len(motd) + 1), j \in 0..Len(motd)} :
        /\ IsTrimOf(t, motd)
        /\ LET head == Len(MotdOpenBytes) + Len(t) + Len(MiddleBytes)
               tail == Len(body) - Len(AdCloseBytes)
           IN  /\ head < tail
               /\ SubSeq(body, 1, Len(MotdOpenBytes)) = MotdOpenBytes
               /\ SubSeq(body, Len(MotdOpenBytes) + 1,
                         Len(MotdOpenBytes) + Len(t)) = encode(t)
               /\ SubSeq(body, Len(MotdOpenBytes) + Len(t) + 1, head)
                      = MiddleBytes
               /\ IsDecimalOf(SubSeq(body, head + 1, tail), port)
               /\ SubSeq(body, tail + 1, Len(body)) = AdCloseBytes

\* C4: every datagram on the wire carries exactly
\* "[MOTD]" + T + "[/MOTD][AD]" + P + "[/AD]" for the trimmed constructor
\* text T and the port P of its sender, and goes to 224.0.2.60:4445.
C4_DatagramFormat ==
    \A d \in wire :
        /\ d.address = "224.0.2.60"
        /\ d.port = 4445
        /\ IsAnnouncement(d.body, history[d.src].arg_motd,
                          history[d.src].arg_port)

\* both instances have sent; one of them is Running, has sent since its
\* last start(), and its constructor text had whitespace to trim
C4_Witness ==
    /\ Cardinality(wire) = 2
    /\ \E a \in Instances :
          /\ history[a].arg_motd # broadcasters[a].motd
          /\ broadcasters[a].motd # <<>>
          /\ history[a].lifecycle = "Running"
          /\ history[a].late_send = FALSE
          /\ history[a].sent >= 1

\* C5: while an instance is Running (started, stop() not called), at any
\* time start + k*I + e with 0 <= e < I it has sent at least k and at most
\* k + 1 datagrams.
C5_Cadence ==
    \A a \in Instances :
        history[a].lifecycle = "Running" =>
            LET k == (now - history[a].start_time) \div interval_of(a)
            IN  /\ history[a].sent >= k
                /\ history[a].sent <= k + 1

\* what an instance is and has done, as others can see it
View(a) ==
    <<broadcasters[a], interval_of(a), history[a],
      {d \in wire : d.src = a}>>

\* C6: no step changes two instances: a start(), stop() or interval
\* assignment on one instance, and a step of its thread, leave the fields,
\* the interval, the running state and the datagrams of every other instance
\* as they were; the datagrams of an instance are its own.
C6_Independent ==
    /\ [][\A a, b \in Instances :
             a # b => (View(a)' = View(a) \/ View(b)' = View(b))]_vars
    /\ [](\A d \in wire : d = datagram(d.src))

\* one instance has an interval of its own and has been stopped while the
\* other, without one, is running and has sent
C6_Witness ==
    \E a, b \in Instances :
        /\ a # b
        /\ broadcasters[a].own_interval # <<>>
        /\ history[a].stop_done
        /\ broadcasters[b].own_interval = <<>>
        /\ interval_of(b) = 3
        /\ is_running(b)
        /\ history[b].sent >= 1

\* C7: when main returns after a KeyboardInterrupt, every configured
\* instance has been created, stop() has returned on each of them and none
\* of their threads is alive.
C7_ShutdownStopsAll ==
    (callerPc = "main_done" /\ interrupted) =>
        /\ Len(broadcasters) = Len(config["servers"])
        /\ \A a \in Instances :
              /\ history[a].stop_done
              /\ ~is_running(a)

\* main has returned after an interrupt that came when one instance had
\* been started (and had sent) and another had not
C7_Witness ==
    /\ callerPc = "main_done"
    /\ interrupted
    /\ \E a, b \in Instances :
          /\ broadcasters[a].thread = "exited"
          /\ history[a].sent >= 1
          /\ broadcasters[b].thread = "new"

\* C8: an OSError from socket.socket() in one constructor does not end main.
C8_SocketFailureContained ==
    exception = "OSError" => callerPc # "main_raised"

\* the entries load_config must return for count n, base port b, payload m
\* and interval v
IsGenerated(servers, n, b, m, v) ==
    /\ Len(servers) = n
    /\ \A i \in 1..n :
          /\ servers[i]["port"] = b + (i - 1)
          /\ servers[i]["motd"] = m
          /\ servers[i]["interval"] = v

\* the value of key k the file asks for, d when the file has no such key
Asked(k, d) == IF k \in DOMAIN requested THEN requested[k] ELSE d

C10_ExplicitServersKept ==
    (loaded /\ file.exists /\ file.parses /\ "servers" \in DOMAIN file.content)
        => config["servers"] = file.content["servers"]

====
